---- MODULE Spec2Model ----
(***************************************************************************)
(* Cost-bounded execution of atlas-coder.                                  *)
(*                                                                         *)
(* Two budget ledgers exist in the repository:                             *)
(*   - atlas_coder/core/engine.py : CostTracker (pydantic record) owned by *)
(*     AtlasCoderEngine; modelled by cost_tracker / cost_file.             *)
(*   - dspy_core/optimization.py  : CostTracker keyed by date, used by the *)
(*     escalation controller of dspy_core/progressive_execution.py;        *)
(*     modelled by ledger / ledger_file.                                   *)
(*                                                                         *)
(* Money is an integer number of units.  The engine ledger counts in units *)
(* of $0.0000125 (so that 500 tokens at $0.075 per million are 3 units and *)
(* the default estimate of $0.01 is 800 units); the date-keyed ledger      *)
(* counts in units of $0.0005 (the minimum cost of one tier attempt, $0.001,*)
(* is 2 units).                                                            *)
(* Arithmetic is exact; floating point rounding is not modelled.           *)
(***************************************************************************)
EXTENDS Integers, Sequences, FiniteSets, TLC

\* ------------------------------------------------------------------ bounds
MaxDay == 2
MaxCalls == 3
NumThreads == 3

\* ------------------------------------------------------- program constants
DefaultEstimate == 800
EstimatedInputTokens == 2000
EstimatedOutputTokens == 1000
SuccessInputTokens == 1000
SuccessOutputTokens == 500
FailureInputTokens == 500
FailureOutputTokens == 0

Strategies == {"cost-optimal", "quality-optimal", "local-only"}

\* daily budgets the engine is constructed with (units of $0.0000125)
Budgets == {0, 18, 820}

\* (input_tokens, output_tokens) passed to can_execute / record_usage
TokenPairs == {<<0, 0>>, <<500, 0>>, <<1000, 500>>, <<2000, 1000>>}

Days == 1..MaxDay

\* last_reset of a CostTracker() built with the field default ""
NoDate == 0

VARIABLES
    today,           \* datetime.now().date()
    model_strategy,  \* AtlasCoderEngine.model_strategy
    cost_tracker,    \* AtlasCoderEngine.cost_tracker
    cost_file,       \* cache_dir / "cost_log.json"
    pc,              \* position of each concurrent caller of execute_with_tracking
    ret,             \* the last operation, its argument and what it returned
    ledger,          \* dspy_core CostTracker: daily_budget, daily_costs, session_metrics
    ledger_file,     \* ./dspy_cache/cost_log.json as the dspy_core CostTracker reads it
    task_params,     \* the request execute_with_escalation is serving
    current_level,   \* execute_with_escalation: current_level
    escalation_count,\* execute_with_escalation: escalation_count
    last_result,     \* execute_with_escalation: last_result
    epc,             \* position of execute_with_escalation
    attempt_count,   \* number of _execute_at_level calls made by this process
    memory_cache,    \* SignatureCache.memory_cache, the entries in dict order
    max_entries,     \* SignatureCache.max_entries
    stats,           \* SignatureCache.stats
    clock,           \* time.time()
    cache_ret,       \* the last cache operation, its request and what it returned
    hybrid_strategy, \* HybridModelStrategy: fallback_chain, performance_cache, session fields
    environment,     \* Ollama reachable, OPENAI_API_KEY set
    sel_ret          \* the last select_model call, its arguments and what it returned

engine_vars == <<model_strategy, cost_tracker, cost_file, pc>>
esc_vars == <<ledger, ledger_file, task_params, current_level, escalation_count,
              last_result, epc, attempt_count>>
cache_vars == <<memory_cache, max_entries, stats, clock, cache_ret>>
sel_vars == <<hybrid_strategy, environment, sel_ret>>
vars == <<today, ret, engine_vars, esc_vars, cache_vars, sel_vars>>

Threads == 1..NumThreads

\* ------------------------------------------------ atlas_coder CostTracker

CostTracker(daily_budget, current_cost, last_reset, calls_made) ==
    [daily_budget |-> daily_budget, current_cost |-> current_cost,
     last_reset |-> last_reset, calls_made |-> calls_made]

Max(a, b) == IF a >= b THEN a ELSE b

\* a rollover that clears the counters and forgets to store the new date
reset_if_new_day_forgets_date(t) ==
    IF t.last_reset # today
    THEN [t EXCEPT !.current_cost = 0, !.calls_made = 0]
    ELSE t

reset_if_new_day(t) ==
    IF t.last_reset # today
    THEN [t EXCEPT !.current_cost = 0, !.calls_made = 0, !.last_reset = today]
    ELSE t

\* the tracker after the call, and the value returned
can_make_call_state(t) == reset_if_new_day(t)

\* a check that refuses a call whose cost equals what is left
can_make_call_strict(t, estimated_cost) ==
    (reset_if_new_day(t).current_cost + estimated_cost) < reset_if_new_day(t).daily_budget

can_make_call(t, estimated_cost) ==
    (reset_if_new_day(t).current_cost + estimated_cost) <= reset_if_new_day(t).daily_budget

\* a spend that is clamped at the budget
add_cost_clamped(t, cost) ==
    LET r == reset_if_new_day(t)
    IN  [r EXCEPT !.current_cost = IF r.current_cost + cost > r.daily_budget
                                   THEN Max(r.current_cost, r.daily_budget)
                                   ELSE r.current_cost + cost,
                  !.calls_made = r.calls_made + 1]

add_cost(t, cost) ==
    LET r == reset_if_new_day(t)
    IN  [r EXCEPT !.current_cost = r.current_cost + cost,
                  !.calls_made = r.calls_made + 1]

\* ------------------------------------------------------- AtlasCoderEngine

\* cost_per_million_tokens of the model the strategy selects, in units
cost_per_million_tokens(strategy) ==
    IF strategy = "quality-optimal" THEN 12000 ELSE 6000

estimate_cost(strategy, input_tokens, output_tokens) ==
    IF strategy = "local-only"
    THEN 0
    ELSE ((input_tokens + output_tokens) * cost_per_million_tokens(strategy)) \div 1000000

\* contents of cost_log.json
FileKinds == {"missing", "unreadable", "notjson", "badshape", "record"}
NoData == CostTracker(0, 0, NoDate, 0)
MissingFile == [kind |-> "missing", data |-> NoData]
RecordFile(t) == [kind |-> "record", data |-> t]

_load_cost_tracker(file, daily_budget) ==
    IF file.kind = "record"
    THEN [file.data EXCEPT !.daily_budget = daily_budget]
    ELSE CostTracker(daily_budget, 0, today, 0)

_save_cost_tracker(t) == RecordFile(t)

Ret(op, arg, bool, outcome, remaining) ==
    [op |-> op, arg |-> arg, bool |-> bool, outcome |-> outcome, remaining |-> remaining]

\* a status report whose remaining budget is clamped at zero
get_status_clamped(t) ==
    LET r == reset_if_new_day(t)
    IN  [daily_budget |-> r.daily_budget,
         current_cost |-> r.current_cost,
         remaining_budget |-> Max(0, r.daily_budget - r.current_cost),
         calls_made |-> r.calls_made,
         can_make_calls |-> can_make_call(r, DefaultEstimate),
         last_reset |-> r.last_reset]

get_status(t) ==
    LET r == reset_if_new_day(t)
    IN  [daily_budget |-> r.daily_budget,
         current_cost |-> r.current_cost,
         remaining_budget |-> r.daily_budget - r.current_cost,
         calls_made |-> r.calls_made,
         can_make_calls |-> can_make_call(r, DefaultEstimate),
         last_reset |-> r.last_reset]

\* ------------------------------- dspy_core CostTracker (spend keyed by date)
\* Money of this ledger is counted in units of $0.0005, so that the minimum
\* cost of an attempt ($0.001) is 2 units and cost * 1.5 stays an integer.

\* CostTracker.__init__: daily_budget = 3.00
DailyBudget == 6000

\* _execute_estimate_cost: max(0.001, ...)
MinimumCost == 2

\* _execute_at_level, except branch: cost = 0.01
FailedExecutionCost == 20

\* daily_costs is a dict from dates to spend; shape "other" is a JSON value
\* that json.load returned and that is no such dict (a list, a string, ...)
Ledger(shape, daily_costs, session_metrics) ==
    [daily_budget |-> DailyBudget, shape |-> shape, daily_costs |-> daily_costs,
     session_metrics |-> session_metrics]

EmptyDict == << >>

_load_daily_costs(file) ==
    CASE file.kind = "record" -> [shape |-> "dict", daily_costs |-> file.data]
      [] file.kind = "badshape" -> [shape |-> "other", daily_costs |-> EmptyDict]
      [] OTHER -> [shape |-> "dict", daily_costs |-> EmptyDict]

\* CostTracker.__init__
NewCostTracker(file) ==
    Ledger(_load_daily_costs(file).shape, _load_daily_costs(file).daily_costs, 0)

_save_daily_costs(l) == [kind |-> "record", data |-> l.daily_costs]

\* self.daily_costs.get(today, 0.0)
used_today(l) ==
    IF today \in DOMAIN l.daily_costs THEN l.daily_costs[today] ELSE 0

get_remaining_budget(l) == Max(0, l.daily_budget - used_today(l))

can_afford_task(l, estimated_cost) == estimated_cost <= get_remaining_budget(l)

\* CostTracker.record_usage of dspy_core: the ledger after the call
ledger_record_usage(l, cost_estimate) ==
    [l EXCEPT !.daily_costs =
                  [d \in (DOMAIN l.daily_costs) \cup {today} |->
                      IF d = today THEN used_today(l) + cost_estimate
                      ELSE l.daily_costs[d]],
              !.session_metrics = l.session_metrics + 1]

\* ------------------------------------------------------ ProgressiveComplexity
\* quality scores are counted in thirtieths: 0.8 is 24, 1/3 is 10
QualityScale == 30
success_threshold == 24

ExecutionLevels == <<"quick_scan", "detailed_analysis", "comprehensive_solution">>
NoLevel == "none"

WorkflowTypes == {"bug_fix", "analyze", "refactor"}
Urgencies == {"normal", "high"}
\* quality_requirement in hundredths
QualityRequirements == {70, 80, 95}

determine_initial_complexity(task) ==
    IF task.type \in {"analyze", "review"} /\ task.quality_requirement < 80
    THEN "quick_scan"
    ELSE IF task.urgency = "high" \/ task.quality_requirement > 90
    THEN "comprehensive_solution"
    ELSE "detailed_analysis"

\* a WorkflowResult: success, and of its data the number of fields, whether
\* the fields the task type requires are there, whether the values hold more
\* than 100 characters, whether str(data) is shorter than 50 characters
_evaluate_result_quality(result) ==
    ( ( (IF result.nfields > 2 THEN 1 ELSE 0)
      + (IF result.substantial THEN 1 ELSE 0)
      + (IF result.success THEN 1 ELSE 0) ) * QualityScale ) \div 3

_result_seems_incomplete(result, type) ==
    IF type \in {"bug_fix", "generate", "analyze"}
    THEN ~result.required
    ELSE result.tiny

should_escalate(result, complexity_level, type) ==
    IF complexity_level = "comprehensive_solution"
    THEN FALSE
    ELSE IF _evaluate_result_quality(result) < success_threshold
    THEN TRUE
    ELSE _result_seems_incomplete(result, type)

\* -------------------------------------------------------- ProgressiveExecutor
max_escalations == 2
quality_threshold == 24

\* the models select_model may return; which one depends on the environment
\* (Ollama reachable, API key set, performance history)
ModelNames == {"ollama/llama3.2", "google/gemini-1.5-flash"}

\* model.startswith('ollama/')
is_ollama(model) == model \in {"ollama/llama3.2"}

\* largest estimated output cost of a result, as a multiple of MinimumCost
MaxCostFactor == 2

WorkflowResult(success, nfields, required, substantial, tiny, content_cost, error) ==
    [success |-> success, nfields |-> nfields, required |-> required,
     substantial |-> substantial, tiny |-> tiny, content_cost |-> content_cost,
     error |-> error]

\* WorkflowResult(success=False, error=...): data is {}
FailureResult == WorkflowResult(FALSE, 0, FALSE, FALSE, TRUE, 0, TRUE)

\* a data dict that can exist: two required fields are two fields, an empty
\* dict has no content and prints as "{}", more than 100 characters of values
\* print in more than 50 characters, and a cost above 0 needs content
ValidResult(w) ==
    /\ w.required => w.nfields >= 2
    /\ w.nfields = 0 => (~w.substantial /\ w.tiny)
    /\ w.substantial => ~w.tiny
    /\ w.content_cost > 0 => w.substantial

\* what orchestrator.execute_workflow can return
WorkflowResults ==
    {FailureResult} \cup
    { w \in { WorkflowResult(TRUE, n, r, s, t, c, FALSE) :
                n \in {0, 2, 3}, r \in BOOLEAN, s \in BOOLEAN, t \in BOOLEAN,
                c \in {0, MinimumCost, MaxCostFactor * MinimumCost} } :
        ValidResult(w) }

_evaluate_quality(result) ==
    IF ~result.success THEN 0 ELSE _evaluate_result_quality(result)

_estimate_execution_cost(result, model) ==
    IF is_ollama(model)
    THEN 0
    ELSE Max(MinimumCost, IF result.success /\ result.nfields > 0
                          THEN result.content_cost ELSE 0)

_should_escalate(result, quality_score, level, type) ==
    IF ~result.success
    THEN TRUE
    ELSE IF quality_score < quality_threshold
    THEN TRUE
    ELSE should_escalate(result, level, type)

\* a next level that stays where it is
_get_next_level_stay(level) ==
    level

_get_next_level(level) ==
    IF \E i \in 1..(Len(ExecutionLevels) - 1) : ExecutionLevels[i] = level
    THEN ExecutionLevels[(CHOOSE i \in 1..(Len(ExecutionLevels) - 1) :
                              ExecutionLevels[i] = level) + 1]
    ELSE NoLevel

ExecutionResult(success, level_used, cost, quality_score, escalation_needed, next_level, error) ==
    [success |-> success, level_used |-> level_used, cost |-> cost,
     quality_score |-> quality_score, escalation_needed |-> escalation_needed,
     next_level |-> next_level, error |-> error]

NoResult == ExecutionResult(FALSE, NoLevel, 0, 0, FALSE, NoLevel, FALSE)

\* _execute_at_level when the try block completes: the result it returns
LevelResult(result, model, level, type) ==
    ExecutionResult(result.success, level,
                    _estimate_execution_cost(result, model),
                    _evaluate_quality(result),
                    _should_escalate(result, _evaluate_quality(result), level, type),
                    IF _should_escalate(result, _evaluate_quality(result), level, type)
                    THEN _get_next_level(level) ELSE NoLevel,
                    result.error)

\* a failure result that asks for no escalation
LevelFailure_abort(level) ==
    ExecutionResult(FALSE, level, FailedExecutionCost, 0, FALSE, NoLevel, TRUE)

\* _execute_at_level when the try block raises: the result it returns
LevelFailure(level) ==
    ExecutionResult(FALSE, level, FailedExecutionCost, 0, TRUE, _get_next_level(level), TRUE)

\* ------------------------------------------------------------ SignatureCache
\* A string input is a sequence of characters; an input dict is a sequence of
\* [field, value] in insertion order, with distinct fields.

Whitespace == {" ", "\t"}

\* field names in the order json.dumps(sort_keys=True) writes them
FieldNames == <<"code", "depth">>

StrValue(s) == [is_str |-> TRUE, str |-> s, other |-> 0]
OtherValue(n) == [is_str |-> FALSE, str |-> << >>, other |-> n]

RECURSIVE lstrip(_)
lstrip(s) ==
    IF s # << >> /\ Head(s) \in Whitespace THEN lstrip(Tail(s)) ELSE s

RECURSIVE rstrip(_)
rstrip(s) ==
    IF s # << >> /\ s[Len(s)] \in Whitespace
    THEN rstrip(SubSeq(s, 1, Len(s) - 1))
    ELSE s

\* str.strip()
strip(s) == rstrip(lstrip(s))

\* str.split(): the words between runs of whitespace
RECURSIVE split(_)
split(s) ==
    LET t == lstrip(s)
    IN  IF t = << >>
        THEN << >>
        ELSE LET ends == {i \in 1..Len(t) : t[i] \in Whitespace}
                 n == IF ends = {} THEN Len(t) + 1
                      ELSE CHOOSE i \in ends : \A j \in ends : i <= j
             IN  <<SubSeq(t, 1, n - 1)>> \o split(SubSeq(t, n, Len(t)))

\* " ".join(words)
RECURSIVE join(_)
join(words) ==
    IF words = << >> THEN << >>
    ELSE IF Len(words) = 1 THEN words[1]
    ELSE words[1] \o <<" ">> \o join(Tail(words))

\* a normalization that trims the ends and keeps inner whitespace as it is
_normalize_inputs_strip_only(inputs) ==
    [i \in 1..Len(inputs) |->
        IF inputs[i].value.is_str
        THEN [field |-> inputs[i].field,
              value |-> StrValue(strip(inputs[i].value.str))]
        ELSE inputs[i]]

_normalize_inputs(inputs) ==
    [i \in 1..Len(inputs) |->
        IF inputs[i].value.is_str
        THEN [field |-> inputs[i].field,
              value |-> StrValue(join(split(strip(inputs[i].value.str))))]
        ELSE inputs[i]]

\* position of a field name in the sorted order of the keys
FieldRank(field) == CHOOSE k \in 1..Len(FieldNames) : FieldNames[k] = field

\* json.dumps(..., sort_keys=True): the items of the dict ordered by key
sort_keys(inputs) ==
    [r \in 1..Len(inputs) |->
        inputs[CHOOSE i \in 1..Len(inputs) :
                   Cardinality({j \in 1..Len(inputs) :
                       FieldRank(inputs[j].field) < FieldRank(inputs[i].field)}) = r - 1]]

\* the sha256 digest of the JSON text stands for the text itself: distinct
\* texts are taken to have distinct digests
_generate_cache_key(signature, inputs, model) ==
    [signature |-> signature, inputs |-> sort_keys(_normalize_inputs(inputs)),
     model |-> model]

CacheEntry(key, signature, inputs, outputs, model, timestamp, hit_count) ==
    [key |-> key, signature |-> signature, inputs |-> inputs, outputs |-> outputs,
     model |-> model, timestamp |-> timestamp, hit_count |-> hit_count]

\* index of the entry stored under key, 0 when the key is not in the dict
KeyIndex(cache, key) ==
    IF \E i \in 1..Len(cache) : cache[i].key = key
    THEN CHOOSE i \in 1..Len(cache) : cache[i].key = key
    ELSE 0

NewStats == [total_requests |-> 0, cache_hits |-> 0, cache_misses |-> 0, cache_size |-> 0]

\* SignatureCache.get: the cache and the stats after the call
get_cache(cache, key) ==
    IF KeyIndex(cache, key) # 0
    THEN [cache EXCEPT ![KeyIndex(cache, key)].hit_count = @ + 1]
    ELSE cache

get_stats(st, cache, key) ==
    IF KeyIndex(cache, key) # 0
    THEN [st EXCEPT !.total_requests = @ + 1, !.cache_hits = @ + 1]
    ELSE [st EXCEPT !.total_requests = @ + 1, !.cache_misses = @ + 1]

\* an order of eviction that looks at the timestamp alone
sort_key_less_by_time(a, b) ==
    a.timestamp < b.timestamp

\* key=lambda x: (x[1].hit_count, x[1].timestamp), compared as tuples
sort_key_less(a, b) ==
    \/ a.hit_count < b.hit_count
    \/ (a.hit_count = b.hit_count /\ a.timestamp < b.timestamp)

\* list.sort is stable: entries with equal keys keep their order
sort(entries) ==
    [r \in 1..Len(entries) |->
        entries[CHOOSE i \in 1..Len(entries) :
                    Cardinality({j \in 1..Len(entries) :
                        \/ sort_key_less(entries[j], entries[i])
                        \/ (~sort_key_less(entries[i], entries[j]) /\ j < i)}) = r - 1]]

\* int(self.max_entries * 0.8)
keep_count(m) == (m * 8) \div 10

\* entries[-k:]; a slice from -0 is the whole list
LastEntries(entries, k) ==
    IF k = 0 \/ k >= Len(entries)
    THEN entries
    ELSE SubSeq(entries, Len(entries) - k + 1, Len(entries))

_cleanup_cache(cache, m) ==
    IF Len(cache) * 10 <= m * 8
    THEN cache
    ELSE LastEntries(sort(cache), keep_count(m))

\* SignatureCache.put: the cache after the call
put_cache(cache, m, signature, inputs, outputs, model, now) ==
    LET key == _generate_cache_key(signature, inputs, model)
        entry == CacheEntry(key, signature, _normalize_inputs(inputs), outputs,
                            model, now, 0)
        stored == IF KeyIndex(cache, key) # 0
                  THEN [cache EXCEPT ![KeyIndex(cache, key)] = entry]
                  ELSE Append(cache, entry)
    IN  IF Len(stored) > m THEN _cleanup_cache(stored, m) ELSE stored

\* stats["cache_size"] is set before the cleanup
put_stats(st, cache, key) ==
    [st EXCEPT !.cache_size = IF KeyIndex(cache, key) # 0
                              THEN Len(cache) ELSE Len(cache) + 1]

NoTask == [type |-> "none", urgency |-> "normal", quality_requirement |-> 70]

Request(signature, inputs, model) ==
    [signature |-> signature, inputs |-> inputs, model |-> model]

NoRequest == Request("none", << >>, "none")

CacheRet(op, request, key, hit, outputs) ==
    [op |-> op, request |-> request, key |-> key, hit |-> hit, outputs |-> outputs]

NoKey == [signature |-> "none", inputs |-> << >>, model |-> "none"]

\* what get returns on a miss
NoOutputs == "None"

\* no SignatureCache is in use
CacheIdle ==
    /\ memory_cache = << >>
    /\ max_entries = 1
    /\ stats = NewStats
    /\ clock = 0
    /\ cache_ret = CacheRet("init", NoRequest, NoKey, FALSE, NoOutputs)

\* --------------------------------------------------------- HybridModelStrategy
\* Scores, qualities and speeds are in thousandths; costs per million tokens in
\* thousandths of a dollar; estimated costs and budgets in units of 1e-7
\* dollar; task complexity in tenths.

NoModel == "None"

ModelConfig(tier, cost_per_1m_input, cost_per_1m_output, quality_score, speed_score, specialization, requires_api_key) ==
    [tier |-> tier, cost_per_1m_input |-> cost_per_1m_input,
     cost_per_1m_output |-> cost_per_1m_output, quality_score |-> quality_score,
     speed_score |-> speed_score, specialization |-> specialization,
     requires_api_key |-> requires_api_key]

LocalModels == <<"ollama/qwen2.5-coder", "ollama/llama3.2">>

OpenRouterModels ==
    <<"google/gemini-2.0-flash-lite-001", "google/gemini-1.5-flash",
      "anthropic/claude-3.5-haiku", "anthropic/claude-3.5-sonnet",
      "anthropic/claude-3-opus">>

\* _initialize_model_configs
models ==
    [name \in {LocalModels[i] : i \in 1..Len(LocalModels)}
              \cup {OpenRouterModels[i] : i \in 1..Len(OpenRouterModels)} |->
        CASE name = "ollama/qwen2.5-coder" ->
                 ModelConfig("local_free", 0, 0, 700, 900, {"code", "analysis"}, FALSE)
          [] name = "ollama/llama3.2" ->
                 ModelConfig("local_free", 0, 0, 650, 800, {"general", "analysis"}, FALSE)
          [] name = "google/gemini-2.0-flash-lite-001" ->
                 ModelConfig("openrouter_cheap", 75, 300, 750, 950,
                             {"general", "code", "analysis"}, TRUE)
          [] name = "google/gemini-1.5-flash" ->
                 ModelConfig("openrouter_cheap", 75, 300, 780, 900,
                             {"general", "code", "analysis"}, TRUE)
          [] name = "anthropic/claude-3.5-haiku" ->
                 ModelConfig("openrouter_balanced", 1000, 5000, 850, 850,
                             {"code", "analysis", "general"}, TRUE)
          [] name = "anthropic/claude-3.5-sonnet" ->
                 ModelConfig("openrouter_premium", 3000, 15000, 950, 700,
                             {"code", "analysis", "general", "architecture"}, TRUE)
          [] name = "anthropic/claude-3-opus" ->
                 ModelConfig("openrouter_max", 15000, 75000, 980, 500,
                             {"architecture", "complex_reasoning", "code"}, TRUE)]

\* _build_fallback_chain in an environment [ollama, api_key]
_build_fallback_chain(env) ==
    (IF env.ollama THEN LocalModels ELSE << >>)
    \o (IF env.api_key THEN OpenRouterModels ELSE << >>)

\* HybridModelStrategy.__init__ with the performance data the file holds
NewStrategy(env, performance_cache) ==
    [fallback_chain |-> _build_fallback_chain(env),
     performance_cache |-> performance_cache,
     current_model |-> NoModel,
     model_switch_count |-> 0]

\* the arguments of select_model
SelectArgs(task_complexity, quality_requirement, budget_remaining, task_type, urgency) ==
    [task_complexity |-> task_complexity, quality_requirement |-> quality_requirement,
     budget_remaining |-> budget_remaining, task_type |-> task_type,
     urgency |-> urgency]

NoArgs == SelectArgs(0, 0, 0, "none", "normal")

Abs(x) == IF x >= 0 THEN x ELSE 0 - x

\* _estimate_task_cost: 500 + complexity * 2000 tokens, 60 % of them input
_estimate_task_cost(model, complexity) ==
    IF ~model.requires_api_key
    THEN 0
    ELSE LET total_tokens == 500 + complexity * 200
             input_tokens == (total_tokens * 6) \div 10
             output_tokens == (total_tokens * 4) \div 10
         IN  (input_tokens * model.cost_per_1m_input
                 + output_tokens * model.cost_per_1m_output) \div 100

\* performance_cache: the set of [model, task_type, total_runs, successful_runs,
\* total_quality], one for each model and task type that has a record
HasHistory(performance_cache, model_name, task_type) ==
    \E h \in performance_cache : h.model = model_name /\ h.task_type = task_type

History(performance_cache, model_name, task_type) ==
    CHOOSE h \in performance_cache : h.model = model_name /\ h.task_type = task_type

\* (success_rate + avg_quality) * 0.05
_get_historical_performance_bonus(performance_cache, model_name, task_type) ==
    IF ~HasHistory(performance_cache, model_name, task_type)
    THEN 0
    ELSE LET h == History(performance_cache, model_name, task_type)
             success_rate == (h.successful_runs * 1000) \div h.total_runs
             avg_quality == h.total_quality \div h.total_runs
         IN  ((success_rate + avg_quality) * 5) \div 100

\* the availability check of _calculate_model_score
availability_score(model, env) ==
    IF model.requires_api_key /\ ~env.api_key
    THEN 0
    ELSE IF model.tier = "local_free" /\ ~env.ollama
    THEN 0
    ELSE 1

cost_penalty(model, task_complexity, budget_remaining) ==
    IF model.requires_api_key /\ budget_remaining > 0
    THEN IF _estimate_task_cost(model, task_complexity) * 2 > budget_remaining
         THEN (_estimate_task_cost(model, task_complexity) * 300) \div budget_remaining
         ELSE 0
    ELSE IF model.requires_api_key /\ budget_remaining <= 0
    THEN 1000
    ELSE 0

_calculate_model_score(strategy, env, model_name, args) ==
    LET model == models[model_name]
        specialization_bonus ==
            IF args.task_type \in model.specialization THEN 100 ELSE 0
        complexity_match == 1000 - Abs(model.quality_score - args.quality_requirement)
        speed_bonus ==
            IF args.urgency = "high" THEN model.speed_score \div 10 ELSE 0
        historical_bonus ==
            _get_historical_performance_bonus(strategy.performance_cache, model_name,
                                              args.task_type)
    IN  Max(0, (model.quality_score + specialization_bonus + complexity_match
                   + speed_bonus + historical_bonus
                   - cost_penalty(model, args.task_complexity, args.budget_remaining))
               * availability_score(model, env))

\* positions of the fallback chain whose model is in the catalog and scores
\* above zero: the keys of model_scores, in insertion order
ViableModels(strategy, env, args) ==
    {i \in 1..Len(strategy.fallback_chain) :
        /\ strategy.fallback_chain[i] \in DOMAIN models
        /\ _calculate_model_score(strategy, env, strategy.fallback_chain[i], args) > 0}

\* a selection that takes the first viable model of the chain
select_model_first_viable(strategy, env, args) ==
    IF ViableModels(strategy, env, args) = {}
    THEN IF strategy.fallback_chain # << >>
         THEN strategy.fallback_chain[1] ELSE "ollama/llama3.2"
    ELSE strategy.fallback_chain[CHOOSE i \in ViableModels(strategy, env, args) :
                                     \A j \in ViableModels(strategy, env, args) : i <= j]

\* a selection that stays with the current model as long as it is viable
select_model_sticky(strategy, env, args) ==
    IF ViableModels(strategy, env, args) = {}
    THEN IF strategy.fallback_chain # << >>
         THEN strategy.fallback_chain[1] ELSE "ollama/llama3.2"
    ELSE IF \E i \in ViableModels(strategy, env, args) :
                strategy.fallback_chain[i] = strategy.current_model
    THEN strategy.current_model
    ELSE select_model_first_viable(strategy, env, args)

\* a selection that takes the last of the models with the highest score
select_model_last_max(strategy, env, args) ==
    LET score == [i \in 1..Len(strategy.fallback_chain) |->
                     IF strategy.fallback_chain[i] \in DOMAIN models
                     THEN _calculate_model_score(strategy, env,
                                                 strategy.fallback_chain[i], args)
                     ELSE 0]
        viable == {i \in 1..Len(strategy.fallback_chain) : score[i] > 0}
    IN  IF viable = {}
        THEN IF strategy.fallback_chain # << >>
             THEN strategy.fallback_chain[1] ELSE "ollama/llama3.2"
        ELSE strategy.fallback_chain[
                 CHOOSE i \in viable :
                     \A j \in viable : score[j] < score[i] \/ (score[j] = score[i] /\ j <= i)]

\* select_model: the name it returns; max() returns the first of the models
\* with the highest score
select_model(strategy, env, args) ==
    LET score == [i \in 1..Len(strategy.fallback_chain) |->
                     IF strategy.fallback_chain[i] \in DOMAIN models
                     THEN _calculate_model_score(strategy, env,
                                                 strategy.fallback_chain[i], args)
                     ELSE 0]
        viable == {i \in 1..Len(strategy.fallback_chain) : score[i] > 0}
    IN  IF viable = {}
        THEN IF strategy.fallback_chain # << >>
             THEN strategy.fallback_chain[1] ELSE "ollama/llama3.2"
        ELSE strategy.fallback_chain[
                 CHOOSE i \in viable :
                     \A j \in viable : score[j] < score[i] \/ (score[j] = score[i] /\ i <= j)]

\* select_model: the strategy it leaves behind
select_model_update(strategy, env, args) ==
    LET best_model == select_model(strategy, env, args)
    IN  IF best_model # strategy.current_model
           /\ ViableModels(strategy, env, args) # {}
        THEN [strategy EXCEPT !.model_switch_count = @ + 1,
                              !.current_model = best_model]
        ELSE strategy

\* record_performance: the performance_cache after the call
record_performance(performance_cache, model_name, task_type, success, quality_score) ==
    LET old == IF HasHistory(performance_cache, model_name, task_type)
               THEN History(performance_cache, model_name, task_type)
               ELSE [model |-> model_name, task_type |-> task_type, total_runs |-> 0,
                     successful_runs |-> 0, total_quality |-> 0]
    IN  (performance_cache \ {old})
        \cup {[old EXCEPT !.total_runs = @ + 1,
                          !.successful_runs = IF success THEN @ + 1 ELSE @,
                          !.total_quality = @ + quality_score]}

SelRet(op, args, model) == [op |-> op, args |-> args, model |-> model]

\* no HybridModelStrategy is in use
SelectorIdle ==
    /\ environment = [ollama |-> FALSE, api_key |-> FALSE]
    /\ hybrid_strategy = NewStrategy(environment, {})
    /\ sel_ret = SelRet("init", NoArgs, NoModel)

\* no ProgressiveExecutor is in use
EscalationIdle ==
    /\ ledger_file = [kind |-> "missing", data |-> EmptyDict]
    /\ ledger = NewCostTracker(ledger_file)
    /\ task_params = NoTask
    /\ current_level = NoLevel
    /\ escalation_count = 0
    /\ last_result = NoResult
    /\ epc = "idle"
    /\ attempt_count = 0

Init ==
    /\ today = 1
    /\ model_strategy \in Strategies
    /\ cost_file = MissingFile
    /\ \E b \in Budgets : cost_tracker = _load_cost_tracker(MissingFile, b)
    /\ pc = [t \in Threads |-> "idle"]
    /\ ret = Ret("init", 0, TRUE, "none", 0)
    /\ EscalationIdle
    /\ CacheIdle
    /\ SelectorIdle

\* the calendar day changes
Tick ==
    /\ today < MaxDay
    /\ today' = today + 1
    /\ ret' = Ret("tick", 0, TRUE, "none", 0)
    /\ UNCHANGED <<model_strategy, cost_tracker, cost_file, pc, esc_vars, cache_vars, sel_vars>>

\* AtlasCoderEngine.get_status
GetStatus ==
    /\ cost_tracker' = reset_if_new_day(cost_tracker)
    /\ ret' = Ret("get_status", 0, get_status(cost_tracker).can_make_calls, "none",
                  get_status(cost_tracker).remaining_budget)
    /\ UNCHANGED <<today, model_strategy, cost_file, pc, esc_vars, cache_vars, sel_vars>>

\* a budget check that admits every call
can_execute_always(strategy, t, estimated_input_tokens, estimated_output_tokens) ==
    TRUE

can_execute(strategy, t, estimated_input_tokens, estimated_output_tokens) ==
    can_make_call(t, estimate_cost(strategy, estimated_input_tokens, estimated_output_tokens))

\* AtlasCoderEngine.can_execute
CanExecute ==
    \E tokens \in TokenPairs :
        /\ cost_tracker' = can_make_call_state(cost_tracker)
        /\ ret' = Ret("can_execute",
                      estimate_cost(model_strategy, tokens[1], tokens[2]),
                      can_execute(model_strategy, cost_tracker, tokens[1], tokens[2]),
                      "none", 0)
        /\ UNCHANGED <<today, model_strategy, cost_file, pc, esc_vars, cache_vars, sel_vars>>

\* the tracker after AtlasCoderEngine.record_usage
record_usage(strategy, t, input_tokens, output_tokens) ==
    add_cost(t, estimate_cost(strategy, input_tokens, output_tokens))

\* AtlasCoderEngine.record_usage
RecordUsage ==
    \E tokens \in TokenPairs :
        /\ reset_if_new_day(cost_tracker).calls_made < MaxCalls
        /\ cost_tracker' = record_usage(model_strategy, cost_tracker, tokens[1], tokens[2])
        /\ cost_file' = _save_cost_tracker(cost_tracker')
        /\ ret' = Ret("record_usage",
                      estimate_cost(model_strategy, tokens[1], tokens[2]),
                      TRUE, "none", 0)
        /\ UNCHANGED <<today, model_strategy, pc, esc_vars, cache_vars, sel_vars>>

\* AtlasCoderEngine.execute_with_tracking, run by one caller from start to end
ExecuteWithTracking ==
    \E module_raises \in BOOLEAN :
        IF ~can_execute(model_strategy, cost_tracker,
                        EstimatedInputTokens, EstimatedOutputTokens)
        THEN /\ cost_tracker' = can_make_call_state(cost_tracker)
             /\ ret' = Ret("execute_with_tracking", 0, FALSE, "refused", 0)
             /\ UNCHANGED <<today, model_strategy, cost_file, pc, esc_vars, cache_vars, sel_vars>>
        ELSE /\ reset_if_new_day(cost_tracker).calls_made < MaxCalls
             /\ cost_tracker' =
                    IF module_raises
                    THEN record_usage(model_strategy, can_make_call_state(cost_tracker),
                                      FailureInputTokens, FailureOutputTokens)
                    ELSE record_usage(model_strategy, can_make_call_state(cost_tracker),
                                      SuccessInputTokens, SuccessOutputTokens)
             /\ cost_file' = _save_cost_tracker(cost_tracker')
             /\ ret' = Ret("execute_with_tracking",
                           IF module_raises
                           THEN estimate_cost(model_strategy, FailureInputTokens,
                                              FailureOutputTokens)
                           ELSE estimate_cost(model_strategy, SuccessInputTokens,
                                              SuccessOutputTokens),
                           TRUE, IF module_raises THEN "raised" ELSE "returned", 0)
             /\ UNCHANGED <<today, model_strategy, pc, esc_vars, cache_vars, sel_vars>>

\* cost_log.json is removed or damaged outside the program
DamageFile ==
    \E k \in FileKinds \ {"record"} :
        /\ cost_file.kind # k
        /\ cost_file' = [kind |-> k, data |-> NoData]
        /\ ret' = Ret("damage_file", 0, TRUE, "none", 0)
        /\ UNCHANGED <<today, model_strategy, cost_tracker, pc, esc_vars, cache_vars, sel_vars>>

\* AtlasCoderEngine.__init__ in a new process: the ledger is loaded from cost_log.json
NewEngine ==
    \E s \in Strategies, b \in Budgets :
        /\ model_strategy' = s
        /\ cost_tracker' = _load_cost_tracker(cost_file, b)
        /\ ret' = Ret("new_engine", b, TRUE, cost_file.kind, 0)
        /\ UNCHANGED <<today, cost_file, pc, esc_vars, cache_vars, sel_vars>>

Next ==
    \/ Tick
    \/ GetStatus
    \/ CanExecute
    \/ RecordUsage
    \/ ExecuteWithTracking
    \/ DamageFile
    \/ NewEngine

Spec == Init /\ [][Next]_vars

\* ------------------------------ concurrent callers of execute_with_tracking
\* Each caller runs the handler of engine.py lines 221-240: the budget check,
\* then the module call, then record_usage.  Other callers may run between
\* the check and the record; the engine holds no lock.

\* lines 223-226: the budget check, RuntimeError when it fails
Begin(t) ==
    /\ pc[t] = "idle"
    /\ cost_tracker' = can_make_call_state(cost_tracker)
    /\ IF can_execute(model_strategy, cost_tracker,
                      EstimatedInputTokens, EstimatedOutputTokens)
       THEN /\ pc' = [pc EXCEPT ![t] = "running"]
            /\ ret' = Ret("begin", t, TRUE, "none", 0)
       ELSE /\ pc' = pc
            /\ ret' = Ret("begin", t, FALSE, "refused", 0)
    /\ UNCHANGED <<today, model_strategy, cost_file, esc_vars, cache_vars, sel_vars>>

\* lines 228-240: the module returns or raises, and the usage is recorded
Finish(t) ==
    \E module_raises \in BOOLEAN :
        /\ pc[t] = "running"
        /\ reset_if_new_day(cost_tracker).calls_made < MaxCalls
        /\ cost_tracker' =
               IF module_raises
               THEN record_usage(model_strategy, cost_tracker,
                                 FailureInputTokens, FailureOutputTokens)
               ELSE record_usage(model_strategy, cost_tracker,
                                 SuccessInputTokens, SuccessOutputTokens)
        /\ cost_file' = _save_cost_tracker(cost_tracker')
        /\ pc' = [pc EXCEPT ![t] = "idle"]
        /\ ret' = Ret("finish", t, TRUE, IF module_raises THEN "raised" ELSE "returned", 0)
        /\ UNCHANGED <<today, model_strategy, esc_vars, cache_vars, sel_vars>>

ConcNext ==
    \/ Tick
    \/ \E t \in Threads : Begin(t)
    \/ \E t \in Threads : Finish(t)

ConcSpec == Init /\ [][ConcNext]_vars

\* ------------------------------------------------- the escalation controller
MaxAttempts == 3

\* spend of today that cost_log.json holds when the process starts
InitialSpends == {0, DailyBudget - 30, DailyBudget}

LedgerFiles ==
    { [kind |-> k, data |-> EmptyDict] : k \in FileKinds \ {"record"} }
    \cup { [kind |-> "record", data |-> [d \in {1} |-> c]] : c \in InitialSpends }
    \cup { [kind |-> "record", data |-> EmptyDict] }

\* no AtlasCoderEngine of atlas_coder is in use
EngineIdle ==
    /\ model_strategy = "local-only"
    /\ cost_file = MissingFile
    /\ cost_tracker = _load_cost_tracker(MissingFile, 0)
    /\ pc = [t \in Threads |-> "idle"]

\* ProgressiveExecutor.__init__: get_cost_tracker() builds the CostTracker,
\* which loads ./dspy_cache/cost_log.json
EscInit ==
    /\ today = 1
    /\ EngineIdle
    /\ ledger_file \in LedgerFiles
    /\ ledger = NewCostTracker(ledger_file)
    /\ task_params = NoTask
    /\ current_level = NoLevel
    /\ escalation_count = 0
    /\ last_result = NoResult
    /\ epc = "idle"
    /\ attempt_count = 0
    /\ ret = Ret("new_cost_tracker", 0, TRUE, ledger_file.kind, 0)
    /\ CacheIdle
    /\ SelectorIdle

\* execute_with_escalation, lines 53-68: the starting level
StartRequest ==
    \E type \in WorkflowTypes, urgency \in Urgencies, q \in QualityRequirements,
       initial_level \in {NoLevel} \cup {ExecutionLevels[i] : i \in 1..Len(ExecutionLevels)} :
        /\ epc \in {"idle", "done", "raised"}
        /\ task_params' = [type |-> type, urgency |-> urgency, quality_requirement |-> q]
        /\ current_level' = IF initial_level = NoLevel
                            THEN determine_initial_complexity(task_params')
                            ELSE initial_level
        /\ escalation_count' = 0
        /\ last_result' = NoResult
        /\ epc' = "loop"
        /\ ret' = Ret("execute_with_escalation", 0, TRUE,
                      IF initial_level = NoLevel THEN "determined" ELSE "given", 0)
        /\ UNCHANGED <<today, engine_vars, cache_vars, sel_vars, ledger, ledger_file,
                       attempt_count>>

\* execute_with_escalation, lines 78-94: what follows a tier attempt that
\* returned exec_result and left the ledger as l
AfterAttempt(exec_result, l) ==
    /\ last_result' = exec_result
    /\ IF (~exec_result.escalation_needed \/ escalation_count >= max_escalations)
          \/ exec_result.next_level = NoLevel
          \/ ~can_afford_task(l, (exec_result.cost * 3) \div 2)
       THEN /\ epc' = "done"
            /\ UNCHANGED <<current_level, escalation_count>>
       ELSE /\ current_level' = exec_result.next_level
            /\ escalation_count' = escalation_count + 1
            /\ epc' = "loop"

\* one iteration of the loop of execute_with_escalation: _execute_at_level at
\* current_level (lines 98-178), then lines 76-94
ExecuteAtLevel ==
    /\ epc = "loop"
    /\ attempt_count < MaxAttempts
    /\ IF ledger.shape # "dict"
       THEN \* _select_model_for_level: get_remaining_budget raises, outside the try
            /\ epc' = "raised"
            /\ ret' = Ret("_execute_at_level", 0, FALSE, "raised", 0)
            /\ UNCHANGED <<ledger, ledger_file, current_level, escalation_count,
                           last_result, attempt_count>>
       ELSE /\ attempt_count' = attempt_count + 1
            /\ \/ \* the try block raises before the usage is recorded
                  /\ UNCHANGED <<ledger, ledger_file>>
                  /\ AfterAttempt(LevelFailure(current_level), ledger)
                  /\ ret' = Ret("_execute_at_level", FailedExecutionCost, FALSE,
                                "exception", 0)
               \/ \* the try block completes
                  \E model \in ModelNames, result \in WorkflowResults :
                      /\ ledger' = ledger_record_usage(ledger,
                                       _estimate_execution_cost(result, model))
                      /\ ledger_file' = _save_daily_costs(ledger')
                      /\ AfterAttempt(LevelResult(result, model, current_level,
                                                  task_params.type), ledger')
                      /\ ret' = Ret("_execute_at_level",
                                    _estimate_execution_cost(result, model),
                                    result.success, "recorded", 0)
    /\ UNCHANGED <<today, engine_vars, cache_vars, sel_vars, task_params>>

EscNext ==
    \/ Tick
    \/ StartRequest
    \/ ExecuteAtLevel

EscSpec == EscInit /\ [][EscNext]_vars
\* ------------------------------------------------- users of the SignatureCache
MaxGets == 1
MaxClock == 1
\* largest number of entries the model lets a put build up
MaxKeys == 3

MaxEntriesValues == {1, 2}

CacheOutputs == {"out1", "out2"}

\* requests that differ in whitespace, in the order of the fields, in the
\* backend, in the text, in the signature
CacheRequests ==
    { Request("analyze", << [field |-> "code", value |-> StrValue(<<"a", " ", "b">>)],
                            [field |-> "depth", value |-> OtherValue(1)] >>,
              "ollama/llama3.2"),
      Request("analyze", << [field |-> "code",
                             value |-> StrValue(<<" ", "a", "\t", " ", "b", " ">>)],
                            [field |-> "depth", value |-> OtherValue(1)] >>,
              "ollama/llama3.2"),
      Request("analyze", << [field |-> "depth", value |-> OtherValue(1)],
                            [field |-> "code", value |-> StrValue(<<"a", " ", "b">>)] >>,
              "ollama/llama3.2"),
      Request("analyze", << [field |-> "code", value |-> StrValue(<<"a", " ", "b">>)],
                            [field |-> "depth", value |-> OtherValue(1)] >>,
              "google/gemini-1.5-flash"),
      Request("analyze", << [field |-> "code", value |-> StrValue(<<"a", "b">>)],
                            [field |-> "depth", value |-> OtherValue(1)] >>,
              "ollama/llama3.2"),
      Request("bug_fix", << [field |-> "code", value |-> StrValue(<<"a", " ", "b">>)],
                            [field |-> "depth", value |-> OtherValue(1)] >>,
              "ollama/llama3.2") }

\* SignatureCache.__init__ with no signature_cache.json on disk
CacheInit ==
    /\ today = 1
    /\ EngineIdle
    /\ EscalationIdle
    /\ SelectorIdle
    /\ ret = Ret("init", 0, TRUE, "none", 0)
    /\ memory_cache = << >>
    /\ max_entries \in MaxEntriesValues
    /\ stats = NewStats
    /\ clock = 0
    /\ cache_ret = CacheRet("init", NoRequest, NoKey, FALSE, NoOutputs)

\* time.time() advances
ClockTick ==
    /\ clock < MaxClock
    /\ clock' = clock + 1
    /\ UNCHANGED <<today, ret, engine_vars, esc_vars, sel_vars, memory_cache,
                   max_entries, stats, cache_ret>>

\* SignatureCache.get
CacheGet ==
    \E r \in CacheRequests :
        LET key == _generate_cache_key(r.signature, r.inputs, r.model)
        IN  /\ stats.total_requests < MaxGets
            /\ memory_cache' = get_cache(memory_cache, key)
            /\ stats' = get_stats(stats, memory_cache, key)
            /\ cache_ret' = IF KeyIndex(memory_cache, key) # 0
                            THEN CacheRet("get", r, key, TRUE,
                                     memory_cache[KeyIndex(memory_cache, key)].outputs)
                            ELSE CacheRet("get", r, key, FALSE, NoOutputs)
            /\ UNCHANGED <<today, ret, engine_vars, esc_vars, sel_vars, max_entries, clock>>

\* SignatureCache.put
CachePut ==
    \E r \in CacheRequests, outputs \in CacheOutputs :
        LET key == _generate_cache_key(r.signature, r.inputs, r.model)
        IN  /\ KeyIndex(memory_cache, key) # 0 \/ Len(memory_cache) < MaxKeys
            /\ memory_cache' = put_cache(memory_cache, max_entries, r.signature,
                                         r.inputs, outputs, r.model, clock)
            /\ stats' = put_stats(stats, memory_cache, key)
            /\ cache_ret' = CacheRet("put", r, key, FALSE, outputs)
            /\ UNCHANGED <<today, ret, engine_vars, esc_vars, sel_vars, max_entries, clock>>

\* SignatureCache.clear
CacheClear ==
    /\ memory_cache' = << >>
    /\ stats' = NewStats
    /\ cache_ret' = CacheRet("clear", NoRequest, NoKey, FALSE, NoOutputs)
    /\ UNCHANGED <<today, ret, engine_vars, esc_vars, sel_vars, max_entries, clock>>

CacheNext ==
    \/ ClockTick
    \/ CacheGet
    \/ CachePut
    \/ CacheClear

CacheSpec == CacheInit /\ [][CacheNext]_vars

\* ------------------------------------------- users of the HybridModelStrategy
MaxSwitches == 2
MaxRuns == 1

Environments == [ollama : BOOLEAN, api_key : BOOLEAN]

\* (complexity, quality) of _select_model_for_level for the preferences fast
\* and quality
LevelRequirements == {<<3, 600>>, <<9, 950>>}

\* remaining budgets of $0, $0.01 and $3.00
RemainingBudgets == {0, 100000, 30000000}

TaskTypes == {"code", "architecture"}

AllSelectArgs ==
    {SelectArgs(l[1], l[2], b, t, u) :
        l \in LevelRequirements, b \in RemainingBudgets, t \in TaskTypes, u \in Urgencies}

\* the runs record_performance is told about
RecordedModels == {"ollama/llama3.2", "google/gemini-2.0-flash-lite-001"}
RecordedQualities == {900}

\* HybridModelStrategy() with no model_performance.json on disk
SelInit ==
    /\ today = 1
    /\ EngineIdle
    /\ EscalationIdle
    /\ CacheIdle
    /\ ret = Ret("init", 0, TRUE, "none", 0)
    /\ environment \in Environments
    /\ hybrid_strategy = NewStrategy(environment, {})
    /\ sel_ret = SelRet("init", NoArgs, NoModel)

\* HybridModelStrategy(): record_performance has saved the performance data,
\* _load_performance_cache reads it back
NewHybridStrategy ==
    /\ hybrid_strategy' = NewStrategy(environment, hybrid_strategy.performance_cache)
    /\ sel_ret' = SelRet("__init__", NoArgs, NoModel)
    /\ UNCHANGED <<today, ret, engine_vars, esc_vars, cache_vars, environment>>

\* Ollama starts or stops, OPENAI_API_KEY is set or unset
EnvironmentChange ==
    /\ environment' \in Environments \ {environment}
    /\ sel_ret' = SelRet("environment", NoArgs, NoModel)
    /\ UNCHANGED <<today, ret, engine_vars, esc_vars, cache_vars, hybrid_strategy>>

\* select_model
Select ==
    \E args \in AllSelectArgs :
        /\ hybrid_strategy.model_switch_count < MaxSwitches
        /\ hybrid_strategy' = select_model_update(hybrid_strategy, environment, args)
        /\ sel_ret' = SelRet("select_model", args,
                             select_model(hybrid_strategy, environment, args))
        /\ UNCHANGED <<today, ret, engine_vars, esc_vars, cache_vars, environment>>

\* record_performance
RecordPerformance ==
    \E model_name \in RecordedModels, task_type \in TaskTypes, success \in BOOLEAN,
       quality_score \in RecordedQualities :
        /\ \A h \in hybrid_strategy.performance_cache : h.total_runs < MaxRuns
        /\ Cardinality(hybrid_strategy.performance_cache) < MaxRuns
           \/ HasHistory(hybrid_strategy.performance_cache, model_name, task_type)
        /\ hybrid_strategy' =
               [hybrid_strategy EXCEPT !.performance_cache =
                   record_performance(@, model_name, task_type, success, quality_score)]
        /\ sel_ret' = SelRet("record_performance", NoArgs, NoModel)
        /\ UNCHANGED <<today, ret, engine_vars, esc_vars, cache_vars, environment>>

SelNext ==
    \/ NewHybridStrategy
    \/ EnvironmentChange
    \/ Select
    \/ RecordPerformance

SelSpec == SelInit /\ [][SelNext]_vars

\* ------------------------------------------------------------ properties

\* C1 (EscSpec): the daily budget is a hard cap for the escalation controller:
\* whatever requests execute_with_escalation serves, the spend its ledger
\* holds for today never exceeds the daily budget.
C1_HardDailyCap ==
    ledger.shape = "dict" => used_today(ledger) <= ledger.daily_budget

\* C2 (ConcSpec): the budget check and the following record of one request are
\* atomic with respect to other requests, so that callers running
\* execute_with_tracking at the same time never push current_cost above
\* daily_budget.
C2_AtomicCheckAndSpend ==
    cost_tracker.current_cost <= cost_tracker.daily_budget

\* C3 (Spec): the budget check first rolls the day over, and then answers true
\* exactly when current_cost + estimated_cost <= daily_budget; a cost equal to
\* what is left is affordable.
C3_CanAfford ==
    ret.op = "can_execute" =>
        /\ cost_tracker.last_reset = today
        /\ ret.bool = (cost_tracker.current_cost + ret.arg <= cost_tracker.daily_budget)

\* a call whose cost is exactly what is left, after an earlier spend, is allowed
C3_Witness ==
    /\ ret.op = "can_execute"
    /\ ret.bool
    /\ ret.arg > 0
    /\ cost_tracker.current_cost > 0
    /\ cost_tracker.current_cost + ret.arg = cost_tracker.daily_budget

C5_RecordSpend ==
    [][ (ret'.op = "record_usage"
           \/ (ret'.op = "execute_with_tracking" /\ ret'.outcome # "refused")) =>
          /\ cost_tracker'.current_cost =
                 (IF cost_tracker.last_reset = today
                  THEN cost_tracker.current_cost ELSE 0) + ret'.arg
          /\ cost_tracker'.calls_made =
                 (IF cost_tracker.last_reset = today
                  THEN cost_tracker.calls_made ELSE 0) + 1
          /\ cost_tracker'.daily_budget = cost_tracker.daily_budget ]_vars

\* a recorded spend has taken current_cost from within the budget to above it
C5_Witness ==
    /\ ret.op = "record_usage"
    /\ ret.arg > 0
    /\ cost_tracker.current_cost - ret.arg <= cost_tracker.daily_budget
    /\ cost_tracker.current_cost > cost_tracker.daily_budget

\* C6 (Spec): the remaining budget a ledger reports is
\* max(0, daily_budget - current_cost), which is never negative.
C6_RemainingBudget ==
    ret.op = "get_status" =>
        ret.remaining = Max(0, cost_tracker.daily_budget - cost_tracker.current_cost)

\* C7 (Spec): every ledger operation first compares last_reset with today; when
\* they differ, current_cost and calls_made are set to 0 and last_reset to
\* today before the operation reads or writes, daily_budget never changes, and
\* later operations of the same date do not reset again.
C7_DayRollover ==
    [][ ret'.op \in {"get_status", "can_execute", "record_usage",
                     "execute_with_tracking"} =>
          LET new_day == cost_tracker.last_reset # today
              spends == \/ ret'.op = "record_usage"
                        \/ (ret'.op = "execute_with_tracking"
                              /\ ret'.outcome # "refused")
          IN  /\ cost_tracker'.last_reset = today
              /\ cost_tracker'.daily_budget = cost_tracker.daily_budget
              /\ cost_tracker'.current_cost =
                     (IF new_day THEN 0 ELSE cost_tracker.current_cost)
                         + (IF spends THEN ret'.arg ELSE 0)
              /\ cost_tracker'.calls_made =
                     (IF new_day THEN 0 ELSE cost_tracker.calls_made)
                         + (IF spends THEN 1 ELSE 0)
              /\ (ret'.op = "get_status" =>
                     ret'.remaining =
                         cost_tracker'.daily_budget - cost_tracker'.current_cost) ]_vars

\* the file still holds the spend of day 1 and the ledger, read on day 2, is
\* at zero
C7_Witness ==
    /\ ret.op = "get_status"
    /\ today = 2
    /\ cost_tracker.last_reset = 2
    /\ cost_tracker.current_cost = 0
    /\ cost_tracker.calls_made = 0
    /\ cost_file.kind = "record"
    /\ cost_file.data.last_reset = 1
    /\ cost_file.data.current_cost > 0

\* C8 (EscSpec): loading the ledger never fails: when cost_log.json is missing,
\* unreadable or does not hold a valid record, the ledger starts fresh, with
\* nothing spent today.
C8_LoadNeverFails ==
    (ret.op = "new_cost_tracker" /\ ret.outcome # "record") =>
        (ledger.shape = "dict" /\ used_today(ledger) = 0)

\* C9 (Spec): under the local-only strategy can_execute answers true in every
\* reachable ledger state, also when the ledger was loaded from a file written
\* under another strategy or a larger budget.
C9_LocalOnlyAlwaysExecutes ==
    (model_strategy = "local-only" /\ ret.op = "can_execute") => ret.bool

\* C10 (EscSpec): every tier attempt of the escalation controller that runs is
\* charged to the ledger, the attempts that end in an exception included.
C10_EveryAttemptCharged ==
    attempt_count = ledger.session_metrics

\* C11 (CacheSpec): cache round trip: for every cache state and every
\* max_entries, a get that immediately follows put(signature, inputs, outputs,
\* backend) returns exactly outputs; that is, when put returns, the entry a get
\* of the same request reads is in the cache and holds the outputs that were put.
C11_PutThenGet ==
    cache_ret.op = "put" =>
        /\ KeyIndex(memory_cache, cache_ret.key) # 0
        /\ memory_cache[KeyIndex(memory_cache, cache_ret.key)].outputs = cache_ret.outputs

\* The normalization as the specification words it: the text without its
\* leading and trailing whitespace and with every inner run of whitespace
\* turned into one space.
C12_Collapse(s) ==
    LET kept == {i \in 1..Len(s) :
                    \/ s[i] \notin Whitespace
                    \/ /\ i > 1
                       /\ s[i - 1] \notin Whitespace
                       /\ \E j \in (i + 1)..Len(s) : s[j] \notin Whitespace}
    IN  [r \in 1..Cardinality(kept) |->
            LET i == CHOOSE k \in kept : Cardinality({j \in kept : j < k}) = r - 1
            IN  IF s[i] \in Whitespace THEN " " ELSE s[i]]

\* the input dict as a set of items, string values collapsed, others as they are
C12_Items(inputs) ==
    {<<inputs[i].field,
       IF inputs[i].value.is_str
       THEN StrValue(C12_Collapse(inputs[i].value.str))
       ELSE inputs[i].value>> : i \in 1..Len(inputs)}

C12_SameRequest(r1, r2) ==
    /\ r1.signature = r2.signature
    /\ r1.model = r2.model
    /\ C12_Items(r1.inputs) = C12_Items(r2.inputs)

\* C12 (CacheSpec): two requests map to the same cache key if and only if they
\* have the same signature, the same backend and inputs that are equal after
\* normalization (whitespace variants and other field orders included, other
\* backends excluded); and a get that follows the put of the only entry of the
\* cache hits exactly when its request is such a request.
C12_KeyNormalization ==
    [][(cache_ret.op \in {"get", "put"} /\ cache_ret'.op \in {"get", "put"}) =>
          /\ (cache_ret'.key = cache_ret.key)
                 <=> C12_SameRequest(cache_ret'.request, cache_ret.request)
          /\ ( /\ cache_ret.op = "put"
               /\ cache_ret'.op = "get"
               /\ stats'.total_requests = stats.total_requests + 1
               /\ Len(memory_cache) = 1
               /\ memory_cache[1].key = cache_ret.key )
             => ( /\ cache_ret'.hit
                      <=> C12_SameRequest(cache_ret'.request, cache_ret.request)
                  /\ cache_ret'.hit => cache_ret'.outputs = cache_ret.outputs )]_vars

\* a get hit on an entry that was put with other whitespace or another field
\* order, while an entry of the same signature and inputs for another backend
\* is in the cache too
C12_Witness ==
    /\ cache_ret.op = "get"
    /\ cache_ret.hit
    /\ \E i \in 1..Len(memory_cache) :
          /\ memory_cache[i].key = cache_ret.key
          /\ memory_cache[i].inputs # cache_ret.request.inputs
    /\ \E i \in 1..Len(memory_cache) :
          /\ memory_cache[i].key # cache_ret.key
          /\ memory_cache[i].signature = cache_ret.request.signature
          /\ memory_cache[i].model # cache_ret.request.model
          /\ memory_cache[i].inputs = memory_cache[KeyIndex(memory_cache, cache_ret.key)].inputs

\* C13 (CacheSpec): eviction size bound: for every max_entries >= 1 the number
\* of entries never exceeds max_entries once a put has returned.
C13_SizeBound ==
    Len(memory_cache) <= max_entries

C15_HitCountNeverDecreases ==
    [][\A i \in 1..Len(memory_cache), j \in 1..Len(memory_cache') :
          memory_cache'[j].key = memory_cache[i].key =>
              memory_cache'[j].hit_count >= memory_cache[i].hit_count]_vars

\* C16 (EscSpec): cache before executor: at each tier the controller looks the
\* request up in the cache and invokes the executor only on a miss, and a miss
\* is followed by a put of the result; so the tiers attempted are never more
\* than the lookups that missed, and a completed attempt leaves an entry.
C16_CacheBeforeExecutor ==
    /\ attempt_count <= stats.cache_misses
    /\ (ret.op = "_execute_at_level" /\ ret.outcome = "recorded") =>
           Len(memory_cache) > 0

\* C17 (SelSpec): select returns the argmax of the composite score: whenever at
\* least one candidate of the fallback chain has a score above 0, the backend
\* returned is a candidate whose score is at least the score of every other
\* candidate, and it is never a backend whose availability predicate fails
\* (credential missing, local service unreachable).
C17_SelectArgmax ==
    (/\ sel_ret.op = "select_model"
     /\ \E i \in 1..Len(hybrid_strategy.fallback_chain) :
           _calculate_model_score(hybrid_strategy, environment,
                                  hybrid_strategy.fallback_chain[i], sel_ret.args) > 0)
    => /\ \E i \in 1..Len(hybrid_strategy.fallback_chain) :
             hybrid_strategy.fallback_chain[i] = sel_ret.model
       /\ \A i \in 1..Len(hybrid_strategy.fallback_chain) :
             _calculate_model_score(hybrid_strategy, environment,
                                    hybrid_strategy.fallback_chain[i], sel_ret.args)
                 <= _calculate_model_score(hybrid_strategy, environment,
                                           sel_ret.model, sel_ret.args)
       /\ models[sel_ret.model].requires_api_key => environment.api_key
       /\ models[sel_ret.model].tier = "local_free" => environment.ollama

\* a select that returned a model which is not the first of the chain, while
\* another candidate scores lower but above 0 and a member of the chain is
\* unavailable
C17_Witness ==
    /\ sel_ret.op = "select_model"
    /\ hybrid_strategy.fallback_chain # << >>
    /\ sel_ret.model # hybrid_strategy.fallback_chain[1]
    /\ \E i, j \in 1..Len(hybrid_strategy.fallback_chain) :
          /\ _calculate_model_score(hybrid_strategy, environment,
                                    hybrid_strategy.fallback_chain[i], sel_ret.args) > 0
          /\ _calculate_model_score(hybrid_strategy, environment,
                                    hybrid_strategy.fallback_chain[i], sel_ret.args)
                 < _calculate_model_score(hybrid_strategy, environment,
                                          sel_ret.model, sel_ret.args)
          /\ availability_score(models[hybrid_strategy.fallback_chain[j]], environment) = 0

\* C18 (SelSpec): selector determinism: with the same catalog, arguments,
\* availability and performance history, select returns the same backend
\* whatever earlier calls returned: the backend returned is the one select
\* returns for every value of the session fields current_model and
\* model_switch_count.
C18_SelectorDeterminism ==
    sel_ret.op = "select_model" =>
        \A current_model \in DOMAIN models \cup {NoModel},
           model_switch_count \in 0..MaxSwitches :
            select_model([hybrid_strategy EXCEPT
                             !.current_model = current_model,
                             !.model_switch_count = model_switch_count],
                         environment, sel_ret.args) = sel_ret.model

\* a select that returned a viable backend after two earlier changes of backend
C18_Witness ==
    /\ sel_ret.op = "select_model"
    /\ hybrid_strategy.model_switch_count = MaxSwitches
    /\ sel_ret.model = hybrid_strategy.current_model
    /\ ViableModels(hybrid_strategy, environment, sel_ret.args) # {}

\* C19 (SelSpec): no usable backend: if no candidate has a score above 0,
\* select returns the first entry of the fallback chain, and if the chain is
\* empty it fails with NoBackendAvailable instead of returning a backend id.
C19_NoUsableBackend ==
    (/\ sel_ret.op = "select_model"
     /\ \A i \in 1..Len(hybrid_strategy.fallback_chain) :
           _calculate_model_score(hybrid_strategy, environment,
                                  hybrid_strategy.fallback_chain[i], sel_ret.args) = 0)
    => IF hybrid_strategy.fallback_chain # << >>
       THEN sel_ret.model = hybrid_strategy.fallback_chain[1]
       ELSE sel_ret.model = "NoBackendAvailable"

\* Quick < Detailed < Comprehensive
C20_TierIndex(level) ==
    CASE level = "quick_scan" -> 1
      [] level = "detailed_analysis" -> 2
      [] level = "comprehensive_solution" -> 3
      [] OTHER -> 0

\* C20 (EscSpec): escalation is monotone and bounded: within one request every
\* attempt runs a tier strictly above the tier of the attempt before it, in the
\* order Quick < Detailed < Comprehensive; an attempt is at most number
\* max_escalations + 1 and at most number 3 of its request; and the request
\* ends by returning the result of the tier attempted last.
C20_EscalationMonotoneBounded ==
    [][attempt_count' = attempt_count + 1 =>
          /\ escalation_count + 1 <= max_escalations + 1
          /\ escalation_count + 1 <= C20_TierIndex(current_level)
          /\ C20_TierIndex(current_level) <= 3
          /\ epc' \in {"loop", "done"}
          /\ last_result'.level_used = current_level
          /\ epc' = "loop" =>
                /\ C20_TierIndex(current_level') > C20_TierIndex(current_level)
                /\ escalation_count' = escalation_count + 1
          /\ epc' = "done" =>
                /\ current_level' = current_level
                /\ escalation_count' = escalation_count]_vars

\* a request that attempted all three tiers and returned the result of the last
C20_Witness ==
    /\ epc = "done"
    /\ escalation_count = max_escalations
    /\ attempt_count = 3
    /\ current_level = "comprehensive_solution"
    /\ last_result.level_used = "comprehensive_solution"

\* C21 (EscSpec): escalation decision: after a tier attempt the controller
\* moves to the next tier if and only if the quality of the result is below
\* quality_threshold, a next tier exists, the escalations so far are fewer than
\* max_escalations and the escalation is affordable; a result whose quality
\* is at least quality_threshold ends the request at its tier.
C21_EscalationDecision ==
    [][attempt_count' = attempt_count + 1 =>
          (epc' = "loop" <=>
              /\ last_result'.quality_score < quality_threshold
              /\ C20_TierIndex(current_level) < 3
              /\ escalation_count < max_escalations
              /\ can_afford_task(ledger', (last_result'.cost * 3) \div 2))]_vars

\* C22 (EscSpec): executor failure drives escalation: an attempt whose executor
\* fails (success = false or an exception) gets quality 0; at a tier below
\* Comprehensive it is followed by an attempt at the next tier when the
\* escalation count and the budget allow; at Comprehensive it ends the request
\* with success = false and the error attached to the returned result.
C22_FailureDrivesEscalation ==
    [][(attempt_count' = attempt_count + 1 /\ ~last_result'.success) =>
          /\ last_result'.quality_score = 0
          /\ ( /\ C20_TierIndex(current_level) < 3
               /\ escalation_count < max_escalations
               /\ can_afford_task(ledger', (last_result'.cost * 3) \div 2) )
             => ( /\ epc' = "loop"
                  /\ C20_TierIndex(current_level') = C20_TierIndex(current_level) + 1 )
          /\ C20_TierIndex(current_level) = 3
             => ( /\ epc' = "done"
                  /\ last_result'.level_used = "comprehensive_solution"
                  /\ last_result'.error )]_vars

\* a request that failed at Quick and at Detailed, was escalated both times and
\* ended with the failure of Comprehensive
C22_Witness ==
    /\ epc = "done"
    /\ escalation_count = 2
    /\ current_level = "comprehensive_solution"
    /\ ~last_result.success
    /\ last_result.error
    /\ last_result.quality_score = 0
    /\ ledger.shape = "dict"
    /\ used_today(ledger) = 0

\* C23 (EscSpec): budget gate before every tier: the controller asks
\* can_afford_task before each tier's executor invocation, the first tier of a
\* request included, and does not invoke the executor when the answer is no;
\* so an attempt that is charged to the ledger starts only while the ledger
\* can afford the smallest charge of an attempt.
C23_BudgetGateBeforeEveryTier ==
    [][(/\ attempt_count' = attempt_count + 1
        /\ ledger.shape = "dict"
        /\ used_today(ledger') > used_today(ledger))
       => can_afford_task(ledger, MinimumCost)]_vars

\* the starting tier as the specification words it
C24_InitialTier(task) ==
    IF task.urgency = "high" \/ task.quality_requirement > 90
    THEN "comprehensive_solution"
    ELSE IF task.type \in {"analyze", "review"} /\ task.quality_requirement < 80
    THEN "quick_scan"
    ELSE "detailed_analysis"

\* C24 (EscSpec): initial tier: a request with urgency = high or a quality
\* requirement above 0.9 starts at Comprehensive whatever its task type;
\* otherwise a request of type analyze or review with a quality requirement
\* below 0.8 starts at Quick; every other request starts at Detailed.
C24_InitialTierHeuristic ==
    (ret.op = "execute_with_escalation" /\ ret.outcome = "determined") =>
        current_level = C24_InitialTier(task_params)

\* C25 (SelSpec): exhausted budget excludes paid backends: when the remaining
\* budget is 0 or less, every backend of the chain that requires payment gets
\* the composite score 0, so select returns a paid backend only through the
\* fallback path, when no candidate scores above 0.
C25_ExhaustedBudgetExcludesPaid ==
    (sel_ret.op = "select_model" /\ sel_ret.args.budget_remaining <= 0) =>
        /\ \A i \in 1..Len(hybrid_strategy.fallback_chain) :
              models[hybrid_strategy.fallback_chain[i]].requires_api_key =>
                  _calculate_model_score(hybrid_strategy, environment,
                      hybrid_strategy.fallback_chain[i], sel_ret.args) = 0
        /\ (sel_ret.model \in DOMAIN models /\ models[sel_ret.model].requires_api_key) =>
              ViableModels(hybrid_strategy, environment, sel_ret.args) = {}

\* C26 (SelSpec): selector tie-break: when several candidates share the highest
\* composite score, select returns the one with the lower estimated cost, and
\* among those of equal cost the one declared first in the chain.
C26_TieBreak ==
    (/\ sel_ret.op = "select_model"
     /\ ViableModels(hybrid_strategy, environment, sel_ret.args) # {})
    => \E r \in 1..Len(hybrid_strategy.fallback_chain) :
          /\ hybrid_strategy.fallback_chain[r] = sel_ret.model
          /\ \A j \in 1..Len(hybrid_strategy.fallback_chain) :
                _calculate_model_score(hybrid_strategy, environment,
                    hybrid_strategy.fallback_chain[j], sel_ret.args)
                  = _calculate_model_score(hybrid_strategy, environment,
                        sel_ret.model, sel_ret.args)
                => LET cost_r == _estimate_task_cost(models[sel_ret.model],
                                                     sel_ret.args.task_complexity)
                       cost_j == _estimate_task_cost(
                                     models[hybrid_strategy.fallback_chain[j]],
                                     sel_ret.args.task_complexity)
                   IN  cost_r < cost_j \/ (cost_r = cost_j /\ r <= j)

\* a select that found two candidates of different cost with the same highest
\* score and returned the cheaper one
C26_Witness ==
    /\ sel_ret.op = "select_model"
    /\ ViableModels(hybrid_strategy, environment, sel_ret.args) # {}
    /\ \E j \in 1..Len(hybrid_strategy.fallback_chain) :
          /\ hybrid_strategy.fallback_chain[j] # sel_ret.model
          /\ _calculate_model_score(hybrid_strategy, environment,
                 hybrid_strategy.fallback_chain[j], sel_ret.args)
               = _calculate_model_score(hybrid_strategy, environment,
                     sel_ret.model, sel_ret.args)
          /\ _estimate_task_cost(models[hybrid_strategy.fallback_chain[j]],
                                 sel_ret.args.task_complexity)
               > _estimate_task_cost(models[sel_ret.model], sel_ret.args.task_complexity)

\* WorkflowResult(success=True, data={}): the executor returned no outputs
C27_EmptyOutputs == WorkflowResult(TRUE, 0, FALSE, FALSE, TRUE, 0, FALSE)

\* C27 (EscSpec): incomplete Quick-tier output escalates: a Quick-tier attempt
\* for a bug_fix task whose outputs are empty is scored quality 0, and the
\* controller then attempts the Detailed tier, provided the budget allows it
\* and the escalation count is below the maximum.
C27_IncompleteQuickEscalates ==
    [][(/\ attempt_count' = attempt_count + 1
        /\ current_level = "quick_scan"
        /\ task_params.type = "bug_fix"
        /\ \E model \in ModelNames :
              last_result' = LevelResult(C27_EmptyOutputs, model, "quick_scan", "bug_fix"))
       => /\ last_result'.quality_score = 0
          /\ ( /\ escalation_count < max_escalations
               /\ can_afford_task(ledger', (last_result'.cost * 3) \div 2) )
             => (epc' = "loop" /\ current_level' = "detailed_analysis")]_vars

\* execute_with_progressive_complexity: the flag it reports with the result
\* execute_with_escalation returned
escalation_used(result) == result.escalation_needed

\* C28 (EscSpec): the escalation-used flag returned with the final result is
\* true exactly when the request performed at least one escalation, and false
\* when the result of the first attempted tier was returned.
C28_EscalationUsedFlag ==
    (epc = "done" /\ ret.op = "_execute_at_level") =>
        (escalation_used(last_result) <=> escalation_count > 0)

\* C29 (Spec): sequential cap of the engine. A call of execute_with_tracking
\* that starts with current_cost <= daily_budget ends with
\* current_cost <= daily_budget, whether it is refused by the budget check,
\* returns (1500 tokens recorded) or raises (500 tokens recorded), also when
\* the day has rolled over since the last call: what is recorded never exceeds
\* the 3000-token estimate that the budget check admitted.
C29_SequentialCap ==
    [][(/\ ret'.op = "execute_with_tracking"
        /\ cost_tracker.current_cost <= cost_tracker.daily_budget)
       => cost_tracker'.current_cost <= cost_tracker'.daily_budget]_vars

\* a call admitted with exactly the estimate left has returned and recorded
\* its cost, and the ledger, still within the budget, refuses the next one
C29_Witness ==
    /\ ret.op = "execute_with_tracking"
    /\ ret.outcome = "returned"
    /\ ret.arg > 0
    /\ cost_tracker.current_cost = ret.arg
    /\ cost_tracker.current_cost <= cost_tracker.daily_budget
    /\ cost_tracker.current_cost
           + estimate_cost(model_strategy, EstimatedInputTokens, EstimatedOutputTokens)
       > cost_tracker.daily_budget

\* DSPyEngine.get_model_info: what it reports of SignatureCache.get_stats()
get_model_info(st) ==
    [cache_entries |-> st.cache_size, total_requests |-> st.total_requests]

\* C30 (CacheSpec): the cache size statistic matches the store. After every
\* put, in any sequence of gets and puts from an empty cache, stats["cache_size"]
\* (reported by get_model_info as cache_entries) equals the number of entries
\* held in memory_cache, also after a put that triggers eviction.
C30_CacheSizeMatchesStore ==
    cache_ret.op = "put" => get_model_info(stats).cache_entries = Len(memory_cache)

====
